---- MODULE Spec2Model ----
(***************************************************************************)
(* Model of plugins/p/irqstats.c (munin-c): read_interrupts() parses       *)
(* /proc/interrupts line by line into irqstats[], config() and fetch()     *)
(* report the result.                                                      *)
(*                                                                         *)
(* Text is modelled at character level: a C string is a sequence of        *)
(* one-character strings, line_buf is such a sequence ending in NUL, and a *)
(* char pointer is an index into line_buf (0 is the NULL pointer).         *)
(* The generic (non-__sparc__) build is modelled.                          *)
(***************************************************************************)
EXTENDS Integers, Sequences, FiniteSets, TLC

(***************************************************************************)
(* Program constants.                                                      *)
(***************************************************************************)
MAX_IRQS == 256
MAX_LINE == 4096
MAX_TOKENS == 32

(***************************************************************************)
(* Bounds of the model.                                                    *)
(***************************************************************************)
\* data lines of a file whose lines are drawn freely from DataLines
MaxLines == 1

(***************************************************************************)
(* Characters and <ctype.h>.                                               *)
(***************************************************************************)
NUL == "NUL"
NL == "\n"
SP == " "
TAB == "\t"

DigitSeq == <<"0", "1", "2", "3", "4", "5", "6", "7", "8", "9">>

isdigit(c) == \E i \in 1..10 : DigitSeq[i] = c

DigitVal(c) == (CHOOSE i \in 1..10 : DigitSeq[i] = c) - 1

\* "\v" has no TLA+ escape; it is in no input of the model
isspace(c) == c \in {" ", "\t", "\n", "\f", "\r"}

isblank(c) == c \in {" ", "\t"}

(***************************************************************************)
(* <string.h> over line_buf.                                               *)
(***************************************************************************)
\* first index >= p of buf holding a character of S (one exists: the NUL)
FirstIn(buf, p, S) ==
    CHOOSE i \in p..Len(buf) : buf[i] \in S /\ \A j \in p..(i - 1) : buf[j] \notin S

\* first index >= p of buf holding a character outside S
FirstNotIn(buf, p, S) ==
    CHOOSE i \in p..Len(buf) : buf[i] \notin S /\ \A j \in p..(i - 1) : buf[j] \in S

strlen(buf, p) == FirstIn(buf, p, {NUL}) - p

\* the C string a pointer designates, as a value
CStr(buf, p) == SubSeq(buf, p, p + strlen(buf, p) - 1)

\* strchr(s, c) != NULL
strchr(s, c) == \E i \in 1..Len(s) : s[i] = c

\* one character short: strncmp(s, prefix, Len(prefix) - 1) == 0
strncmp0Short(s, prefix) ==
    /\ Len(s) >= Len(prefix) - 1
    /\ SubSeq(s, 1, Len(prefix) - 1) = SubSeq(prefix, 1, Len(prefix) - 1)

\* strncmp(s, prefix, Len(prefix)) == 0
strncmp0(s, prefix) ==
    /\ Len(s) >= Len(prefix)
    /\ SubSeq(s, 1, Len(prefix)) = prefix

\* strtok(str, " ") with the scan starting at index from (str, or the saved
\* pointer for strtok(NULL, " ")): skips delimiters, returns the token's
\* index (0 for NULL), overwrites the delimiter ending it with NUL
strtok(buf, from) ==
    LET s == FirstNotIn(buf, from, {SP})
    IN  IF buf[s] = NUL
        THEN [tok |-> 0, save |-> s, buf |-> buf]
        ELSE LET e == FirstIn(buf, s, {SP, NUL})
             IN  IF buf[e] = NUL
                 THEN [tok |-> s, save |-> e, buf |-> buf]
                 ELSE [tok |-> s, save |-> e + 1, buf |-> [buf EXCEPT ![e] = NUL]]

RECURSIVE atol(_)
\* atol / strtol(s, NULL, 10) of a string starting with a digit: the value
\* of its longest prefix of digits
atol(s) ==
    LET n == IF \E i \in 1..Len(s) : ~isdigit(s[i])
             THEN (CHOOSE i \in 1..Len(s) : ~isdigit(s[i]) /\ \A j \in 1..(i - 1) : isdigit(s[j])) - 1
             ELSE Len(s)
    IN  IF n = 0 THEN 0
        ELSE 10 * atol(SubSeq(s, 1, n - 1)) + DigitVal(s[n])

(***************************************************************************)
(* Helpers of irqstats.c.                                                  *)
(***************************************************************************)
isnumeric(s) == s # <<>> /\ \A i \in 1..Len(s) : isdigit(s[i])

isempty(s) == \A i \in 1..Len(s) : isspace(s[i])

endswith(haystack, needle) ==
    /\ Len(needle) <= Len(haystack)
    /\ SubSeq(haystack, Len(haystack) - Len(needle) + 1, Len(haystack)) = needle

(***************************************************************************)
(* irqstat_t and the stream.                                               *)
(***************************************************************************)
\* an element of `irqstat_t irqstats[MAX_IRQS] = {0}`; has_name and
\* has_description say that the pointer is not NULL
ZeroIrqstat ==
    [name |-> <<>>, has_name |-> FALSE,
     description |-> <<>>, has_description |-> FALSE,
     hwirq |-> 0, has_hwirq |-> FALSE, count |-> 0]

\* what fgets(line_buf, sizeof(line_buf), interrupts) stores for a line of
\* the file (text without its newline, nl: the newline is there): at most
\* MAX_LINE - 1 characters, up to and including the newline
fgets(text, nl) ==
    LET full == IF nl THEN text \o <<NL>> ELSE text
    IN  IF Len(full) <= MAX_LINE - 1 THEN full ELSE SubSeq(full, 1, MAX_LINE - 1)

\* eol = strchr(line_buf, '\n'), 0 for NULL
EolOf(chunk) ==
    IF strchr(chunk, NL) THEN CHOOSE i \in 1..Len(chunk) : chunk[i] = NL ELSE 0

\* line_buf after `*eol = '\0'`
LineBuf(chunk) == [i \in 1..Len(chunk) |-> IF chunk[i] = NL THEN NUL ELSE chunk[i]]

(***************************************************************************)
(* The header line: one column per CPU.                                    *)
(***************************************************************************)
S_CPU == <<"C", "P", "U">>

RECURSIVE HeaderScan(_, _, _, _)
\* while (pos) { if (strncmp(pos, "CPU", 3)) return 0; cpu_count++; pos = strtok(NULL, " "); }
HeaderScan(buf, pos, save, cpu_count) ==
    IF pos = 0
    THEN [ok |-> TRUE, cpu_count |-> cpu_count]
    ELSE IF ~strncmp0(CStr(buf, pos), S_CPU)
         THEN [ok |-> FALSE, cpu_count |-> cpu_count]
         ELSE LET t == strtok(buf, save)
              IN  HeaderScan(t.buf, t.tok, t.save, cpu_count + 1)

(***************************************************************************)
(* A data line: name, counters.                                            *)
(***************************************************************************)
\* strncpy(name, pos, --length); name[length] = '\0': the token without its
\* last character
NameOf(tok) == SubSeq(tok, 1, Len(tok) - 1)

\* the ERROR forgotten: the loop always just ends
FirstCounterBreak(cpu_num, e) == "none"

\* `if (!cpu_num) { ERROR(...); return 0; } break;`: the ERROR e if no counter
\* was summed yet, else the loop just ends
FirstCounterError(cpu_num, e) == IF cpu_num = 0 THEN e ELSE "none"

\* the loop bound one short: `cpu_num < cpu_count`
CounterLoopOneShort(cpu_num, cpu_count) == cpu_num >= cpu_count

\* the bound of `for (cpu_num = 0; cpu_num <= cpu_count; cpu_num++)`
CounterLoopDone(cpu_num, cpu_count) == cpu_num > cpu_count

RECURSIVE CounterLoop(_, _, _, _, _, _)
\* the counter loop; pos is what the last strtok returned, err the ERROR
\* that ended the parse ("none": the loop ended or broke without one)
CounterLoop(buf, save, pos, cpu_num, cpu_count, count) ==
    IF CounterLoopDone(cpu_num, cpu_count)
    THEN [err |-> "none", pos |-> pos, buf |-> buf, count |-> count]
    ELSE LET t == strtok(buf, save)
         IN  IF t.tok = 0
             THEN [err |-> FirstCounterError(cpu_num, "nocounters"),
                   pos |-> 0, buf |-> t.buf, count |-> count]
             ELSE IF ~isnumeric(CStr(t.buf, t.tok))
                  THEN [err |-> FirstCounterError(cpu_num, "garbage"),
                        pos |-> t.tok, buf |-> t.buf, count |-> count]
                  ELSE CounterLoop(t.buf, t.save, t.tok, cpu_num + 1, cpu_count,
                                   count + atol(CStr(t.buf, t.tok)))

(***************************************************************************)
(* The description (config only).                                          *)
(***************************************************************************)
S_Edge == <<"E", "d", "g", "e">>
S_Level == <<"L", "e", "v", "e", "l">>
S_None == <<"N", "o", "n", "e">>
S_fasteoi == <<"-", "f", "a", "s", "t", "e", "o", "i">>
S_edge == <<"-", "e", "d", "g", "e">>

\* `!pos || (pos = (pos + strlen(pos))) == eol || isempty(++pos)`: 0 when
\* the line is finished without a description, else pos after `++pos`,
\* the character after the NUL that ends the token pos pointed to
TailStart(buf, pos, eol) ==
    IF pos = 0 THEN 0
    ELSE LET e == pos + strlen(buf, pos)
         IN  IF e = eol THEN 0
             ELSE IF isempty(CStr(buf, e + 1)) THEN 0 ELSE e + 1

\* for (; *pos && isblank(*pos); pos++);
SkipBlank(buf, pos) == FirstNotIn(buf, pos, {SP, TAB})

\* for (eos = pos + strlen(pos) - 1; *eos && isspace(*eos); *eos-- = '\0');
\* the string at pos holds a character that is no space, so eos stops on it
NullTrailing(buf, pos) ==
    LET n == strlen(buf, pos)
        last == CHOOSE i \in pos..(pos + n - 1) :
                    ~isspace(buf[i]) /\ \A j \in (i + 1)..(pos + n - 1) : isspace(buf[j])
    IN  [i \in 1..Len(buf) |-> IF i > last /\ i < pos + n THEN NUL ELSE buf[i]]

\* the guard of `while ((pos = strtok(NULL, " ")) != NULL && token_num < (MAX_TOKENS - 1))`
TokLoopGuard(pos, token_num) == pos # 0 /\ token_num < MAX_TOKENS - 1

RECURSIVE TokLoop(_, _, _)
\* tokens[++token_num] = pos, as long as the guard holds; tokens holds
\* pointers, tokens[token_num] of the source is tokens[token_num + 1] here
TokLoop(buf, save, tokens) ==
    LET t == strtok(buf, save)
    IN  IF TokLoopGuard(t.tok, Len(tokens) - 1)
        THEN TokLoop(t.buf, t.save, Append(tokens, t.tok))
        ELSE [buf |-> t.buf, tokens |-> tokens, pos |-> t.tok]

\* tokens[i] of the source, in a sequence of token strings
Tok(tokens, i) == tokens[i + 1]

\* `if (token_num >= 2 && isnumeric(tokens[1]))`: newer ARM, MIPS, some x86
HwirqColumn(tokens) ==
    /\ Len(tokens) - 1 >= 2
    /\ isnumeric(Tok(tokens, 1))

\* "None" forgotten
TypeColumnNoNone(tokens) == Tok(tokens, 2) \in {S_Edge, S_Level}

\* tokens[2] is "Edge", "Level" or "None"
TypeColumn(tokens) == Tok(tokens, 2) \in {S_Edge, S_Level, S_None}

\* the isdigit forgotten
ApicColumnAnyStart(tokens) ==
    endswith(Tok(tokens, 1), S_fasteoi) \/ endswith(Tok(tokens, 1), S_edge)

\* `isdigit(*tokens[1]) && (endswith(tokens[1], "-fasteoi") || endswith(tokens[1], "-edge"))`
ApicColumn(tokens) ==
    /\ isdigit(Tok(tokens, 1)[1])
    /\ endswith(Tok(tokens, 1), S_fasteoi) \/ endswith(Tok(tokens, 1), S_edge)

\* token_start as the two branches of the generic build set it
TokenStart(tokens) ==
    IF HwirqColumn(tokens)
    THEN IF TypeColumn(tokens) THEN 3 ELSE 2
    ELSE IF ApicColumn(tokens) THEN 2 ELSE 1

\* `(hwirq = atol(tokens[1])) != atol(irqstats[irq_num].name)`, in the two
\* branches that look at it
HwirqDiffers(tokens, name) ==
    /\ HwirqColumn(tokens) \/ ApicColumn(tokens)
    /\ atol(Tok(tokens, 1)) # atol(name)

RECURSIVE Concatenate(_, _, _)
\* for (; token_start <= token_num; token_start++) { strcat(tokens[token_start]); strcat(" "); }
Concatenate(tokens, token_start, description) ==
    IF token_start > Len(tokens) - 1
    THEN description
    ELSE Concatenate(tokens, token_start + 1,
                     description \o Tok(tokens, token_start) \o <<SP>>)

\* The outcomes of undefined behaviour: strcpy from the NULL pos when there
\* is one token, and the write to description[-1] when nothing was
\* appended, either end the process or leave the description empty.
UBOutcomes == {"crash", "benign"}

\* the token strings once the while loop has ended; tl is what TokLoop left
TokenStrings(tl) == [i \in 1..Len(tl.tokens) |-> CStr(tl.buf, tl.tokens[i])]

\* tokens[token_num] = pos = strtok(pos, " "), then the while loop
Tokenize(t0) == TokenStrings(TokLoop(t0.buf, t0.save, <<t0.tok>>))

\* how a line ends whose description stage ran into undefined behaviour
Undefined(ub, has_hwirq, hwirq) ==
    [outcome |-> IF ub = "crash" THEN "crash" ELSE "next_line",
     description |-> <<>>, has_hwirq |-> has_hwirq, hwirq |-> hwirq]

\* *(description + strlen(description) - 1) = '\0', which is description[-1]
\* when nothing was appended
StripLast(joined, differs, hwirq, ub) ==
    IF joined = <<>>
    THEN Undefined(ub, differs, IF differs THEN hwirq ELSE 0)
    ELSE [outcome |-> "next_line", description |-> SubSeq(joined, 1, Len(joined) - 1),
          has_hwirq |-> differs, hwirq |-> IF differs THEN hwirq ELSE 0]

\* the numbered-irq part of the description stage, once tokens[] is filled
FromTokens(tokens, name, ub) ==
    IF Len(tokens) - 1 = 0
    THEN \* strcpy(description, pos) with pos == NULL
         Undefined(ub, FALSE, 0)
    ELSE StripLast(Concatenate(tokens, TokenStart(tokens), <<>>),
                   HwirqDiffers(tokens, name), atol(Tok(tokens, 1)), ub)

\* The numbered-irq part of the description stage, from the first strtok to
\* next_line.
NumberedDescription(buf, pos, name, ub) == FromTokens(Tokenize(strtok(buf, pos)), name, ub)

NoDescription(outcome) ==
    [outcome |-> outcome, has_description |-> FALSE,
     description |-> <<>>, has_hwirq |-> FALSE, hwirq |-> 0]

\* the description of a line that has one: d is what NumberedDescription gave
Described(d) ==
    [outcome |-> d.outcome, has_description |-> TRUE,
     description |-> d.description, has_hwirq |-> d.has_hwirq, hwirq |-> d.hwirq]

\* the description stage after the trimming: buf holds the trimmed text at pos
Trimmed(buf, pos, name, alloc, ub) ==
    IF alloc = "description"
    THEN NoDescription("malloc")
    ELSE IF ~isnumeric(name)
         THEN \* strcpy(description, pos)
              Described([outcome |-> "next_line", description |-> CStr(buf, pos),
                         has_hwirq |-> FALSE, hwirq |-> 0])
         ELSE Described(NumberedDescription(buf, pos, name, ub))

\* the description stage from the trimming on: start is pos after `++pos`
FromStart(buf, start, name, alloc, ub) ==
    Trimmed(NullTrailing(buf, SkipBlank(buf, start)), SkipBlank(buf, start), name, alloc, ub)

\* The description stage of one line: outcome "next_line", "malloc" (the
\* ERROR return) or "crash"; alloc names the malloc that fails.
Describe(buf, pos, eol, name, alloc, ub) ==
    IF TailStart(buf, pos, eol) = 0
    THEN NoDescription("next_line")
    ELSE FromStart(buf, TailStart(buf, pos, eol), name, alloc, ub)

(***************************************************************************)
(* The contents of /proc/interrupts the model reads.  A file is a sequence *)
(* of lines [text, nl]: the text without its newline, and whether the      *)
(* newline is there.                                                       *)
(***************************************************************************)
\* first lines: 'CPU0', '  CPU0  CPU1 ', 'CPU0 CPU1 CPU2', 'CPU0\tx', '', '  ', 'cpu0', 'CPU0 x', 'CP'
Headers ==
    {<<"C", "P", "U", "0">>,
     <<" ", " ", "C", "P", "U", "0", " ", " ", "C", "P", "U", "1", " ">>,
     <<"C", "P", "U", "0", " ", "C", "P", "U", "1", " ", "C", "P", "U", "2">>,
     <<"C", "P", "U", "0", "\t", "x">>,
     <<>>,
     <<" ", " ">>,
     <<"c", "p", "u", "0">>,
     <<"C", "P", "U", "0", " ", "x">>,
     <<"C", "P">>}

\* name and counters, for a symbolic and a numbered interrupt
CounterLines ==
    {<<"E", ":">>,
     <<"E", ":", " ", "5">>,
     <<"E", ":", " ", "5", " ", "3">>,
     <<"E", ":", " ", "5", " ", "3", " ", "2">>,
     <<"E", ":", " ", "5", " ", "3", " ", "2", " ", "1">>,
     <<"E", ":", " ", "x">>,
     <<"E", ":", " ", "5", " ", "x">>,
     <<"E", ":", " ", "5", " ", "x", " ", "y">>,
     <<"E", ":", " ", "5", " ", "3", " ", "x", " ", "y">>,
     <<"E", ":", " ", "5", " ", "x", " ", "3">>,
     <<"E", ":", " ", "5", " ", "3", " ", "2", " ", "x", " ", "y", " ", "z">>,
     <<"7", ":">>,
     <<"7", ":", " ", "5">>,
     <<"7", ":", " ", "5", " ", "3">>,
     <<"7", ":", " ", "5", " ", "3", " ", "2">>,
     <<"7", ":", " ", "5", " ", "3", " ", "2", " ", "1">>,
     <<"7", ":", " ", "x">>,
     <<"7", ":", " ", "5", " ", "x">>,
     <<"7", ":", " ", "5", " ", "x", " ", "y">>,
     <<"7", ":", " ", "5", " ", "3", " ", "x", " ", "y">>,
     <<"7", ":", " ", "5", " ", "x", " ", "3">>,
     <<"7", ":", " ", "5", " ", "3", " ", "2", " ", "x", " ", "y", " ", "z">>,
     <<"E", ":", " ", " ", " ", "5", " ", " ", " ", "3", " ", " ">>,
     <<"E", ":", " ", "5", " ", "\t", "x", " ", "y", " ", "\t">>,
     <<" ", "N", "M", "I", ":", " ", "5", " ", "3", " ", " ", "N", "o", "n", "-", "m", "a", "s", "k", "a", "b", "l", "e", " ", "i", "n", "t", "e", "r", "r", "u", "p", "t", "s">>}

\* name tokens
NameLines ==
    {<<":", " ", "5">>,
     <<"a", ":", "b", " ", "5">>,
     <<"a", "b", " ", "5">>,
     <<"a", ":", ":", " ", "5">>,
     <<":", "a", " ", "5">>,
     <<"F", "I", "Q", ":", " ", "5">>,
     <<"F", "I", "Q", ":", " ", "u">>,
     <<"F", "I", "Q", ":", " ", "u", " ", "v">>}

\* a numbered interrupt with one counter and the layouts of the description
DescriptionLines ==
    {<<"3", "8", ":", " ", "5", " ", "A", " ", "3", "8", " ", "L", "e", "v", "e", "l", " ", "d", ",", " ", "e">>,
     <<"3", "8", ":", " ", "5", " ", "A", " ", "1", "7", " ", "E", "d", "g", "e", " ", "d">>,
     <<"3", "8", ":", " ", "5", " ", "A", " ", "3", " ", "d">>,
     <<"3", "8", ":", " ", "5", " ", "A", " ", "1", "7", " ", "N", "o", "n", "e", " ", "d">>,
     <<"3", "8", ":", " ", "5", " ", "A", " ", "1", "7", " ", "E", "d", "g", "e">>,
     <<"3", "8", ":", " ", "5", " ", "A", " ", "1", "7">>,
     <<"3", "8", ":", " ", "5", " ", "A", " ", "3", "8">>,
     <<"3", "8", ":", " ", "5", " ", "A", " ", "2", "-", "e", "d", "g", "e", " ", "t">>,
     <<"3", "8", ":", " ", "5", " ", "A", " ", "3", "8", "-", "e", "d", "g", "e", " ", "t">>,
     <<"3", "8", ":", " ", "5", " ", "A", " ", "1", "6", "-", "f", "a", "s", "t", "e", "o", "i", " ", "d", " ", "e">>,
     <<"3", "8", ":", " ", "5", " ", "A", " ", "2", "-", "e", "d", "g", "e">>,
     <<"3", "8", ":", " ", "5", " ", "A", " ", "t">>,
     <<"3", "8", ":", " ", "5", " ", "A", " ", "x", "-", "e", "d", "g", "e", " ", "t">>,
     <<"3", "8", ":", " ", "5", " ", "A", " ", "2", "-", "l", "v", "l", " ", "t">>,
     <<"3", "8", ":", " ", "5", " ", "t">>,
     <<"3", "8", ":", " ", "5", " ", "A", " ", " ", "1", "7", " ", " ", "E", "d", "g", "e", " ", " ", " ", "d", " ", " ", "e", " ">>,
     <<"3", "8", ":", " ", "5", " ", "A", " ", "1", "7", " ", "e", "d", "g", "e", " ", "d">>}

\* "38: 5 A 17 Edge d d ... d": MAX_TOKENS + 2 tokens after the counter
ManyTokensLine ==
    <<"3", "8", ":", " ", "5", " ", "A", " ", "1", "7", " ", "E", "d", "g", "e">>
        \o [i \in 1..(2 * (MAX_TOKENS - 1)) |-> IF i % 2 = 1 THEN " " ELSE "d"]

\* "E: 5" padded with spaces to n characters
Padded(n) == [i \in 1..n |-> IF i <= 4 THEN <<"E", ":", " ", "5">>[i] ELSE " "]

\* with its newline the first fills line_buf exactly, the second does not fit
BufferLines == {Padded(MAX_LINE - 2), Padded(MAX_LINE - 1)}

DataLines ==
    CounterLines \cup NameLines \cup DescriptionLines \cup {ManyTokensLine} \cup BufferLines

\* A long file is the header "CPU0" followed by the lines "<i % 10>: 1",
\* i = 1, 2, ..., any of which may be one of BadLines instead.
FillerHeader == <<"C", "P", "U", "0">>

Filler(i) == <<DigitSeq[(i % 10) + 1], ":", " ", "1">>

\* "x", "E:", "E: x", "": no colon, no counter, a counter that is no number,
\* an empty line
BadLines == {<<"x">>, <<"E", ":">>, <<"E", ":", " ", "x">>, <<>>}

\* lines that may come without a newline: the file ends in the middle of a line
Unterminated ==
    {<<"E", ":", " ", "5">>, <<"C", "P", "U", "0">>} \cup {Filler(i) : i \in 0..9}

IsLong(f) == Len(f) >= 2 /\ f[2].text = Filler(1)

\* the lines that may follow the first data line of a short file:
\* "7: 1", "E: 5 3 x y", "x", " NMI: 5 3  Non-maskable interrupts"
LaterLines ==
    { <<"7", ":", " ", "1">>,
      <<"E", ":", " ", "5", " ", "3", " ", "x", " ", "y">>,
      <<"x">>,
      <<" ", "N", "M", "I", ":", " ", "5", " ", "3", " ", " ", "N", "o", "n", "-", "m", "a", "s", "k", "a", "b", "l", "e", " ", "i", "n", "t", "e", "r", "r", "u", "p", "t", "s">> }

\* the texts the next line of the file may have, f being the lines read so far
NextLines(f) ==
    IF Len(f) = 0 THEN Headers
    ELSE IF Len(f) = 1
         THEN DataLines \cup (IF f[1].text = FillerHeader THEN {Filler(1)} ELSE {})
         ELSE IF IsLong(f)
              THEN {Filler(Len(f))} \cup BadLines
              ELSE IF Len(f) - 1 < MaxLines THEN LaterLines ELSE {}

\* the lines fgets may return next
NextInput(f) ==
    {l \in [text : NextLines(f), nl : BOOLEAN] : l.nl \/ l.text \in Unterminated}

(***************************************************************************)
(* State.                                                                  *)
(***************************************************************************)
VARIABLES
    config,       \* the mode: config() (TRUE) or fetch() (FALSE) calls read_interrupts
    file,         \* the lines of /proc/interrupts that fgets has returned so far
    interrupts,   \* the stream: "none" (not opened), "open", "closed"
    pc,           \* "fopen", "loop", "returned", "exit", "crashed"
    line_num,
    irq_num,
    cpu_count,
    irqstats,     \* the slots of irqstats[] written so far: irqstats[i] of the
                  \* source is irqstats[i + 1]; the slots after them are zero
    ret,          \* what read_interrupts returned
    err,          \* the ERROR read_interrupts printed, "none" if none
    out,          \* the lines printed to stdout
    exit_status   \* what main returns, -1 before it does

vars == <<config, file, interrupts, pc, line_num, irq_num, cpu_count, irqstats,
          ret, err, out, exit_status>>

Init ==
    /\ config \in BOOLEAN
    /\ file = <<>>
    /\ interrupts = "none"
    /\ pc = "fopen"
    /\ line_num = 0
    /\ irq_num = 0
    /\ cpu_count = 0
    /\ irqstats = <<>>
    /\ ret = 0
    /\ err = "none"
    /\ out = <<>>
    /\ exit_status = -1

(***************************************************************************)
(* read_interrupts.                                                        *)
(***************************************************************************)
\* the records read so far returned in place of 0: `return irq_num`
ErrorReturnPartial(e, slots) ==
    /\ pc' = "returned"
    /\ ret' = irq_num
    /\ err' = e
    /\ irqstats' = slots
    /\ UNCHANGED <<interrupts, line_num, irq_num, cpu_count>>

\* `return 0` after an ERROR, from inside the loop: the slots are as given
ErrorReturn(e, slots) ==
    /\ pc' = "returned"
    /\ ret' = 0
    /\ err' = e
    /\ irqstats' = slots
    /\ UNCHANGED <<interrupts, line_num, irq_num, cpu_count>>

\* the loop is left: fclose(interrupts); return irq_num
CloseReturn ==
    /\ interrupts' = "closed"
    /\ pc' = "returned"
    /\ ret' = irq_num
    /\ UNCHANGED <<line_num, irq_num, cpu_count, irqstats, err>>

\* interrupts = fopen(INTERRUPTS, "r"), which may fail
Fopen ==
    /\ pc = "fopen"
    /\ \/ /\ interrupts' = "open"
          /\ pc' = "loop"
          /\ UNCHANGED <<ret, err>>
       \/ /\ pc' = "returned"
          /\ ret' = 0
          /\ err' = "fopen"
          /\ UNCHANGED interrupts
    /\ UNCHANGED <<config, file, line_num, irq_num, cpu_count, irqstats, out, exit_status>>

\* fgets returns NULL: the end of the file
EndOfFile ==
    /\ pc = "loop"
    /\ CloseReturn
    /\ UNCHANGED <<config, file, out, exit_status>>

\* the check one too late: irq_num == MAX_IRQS + 1
AtMaxIrqsLate(n) == n = MAX_IRQS + 1

\* irq_num == MAX_IRQS
AtMaxIrqs(n) == n = MAX_IRQS

\* `if (irq_num == MAX_IRQS) break;` with a line read and not looked at
DiscardRemainder ==
    /\ pc = "loop"
    /\ AtMaxIrqs(irq_num)
    /\ \E l \in NextInput(file) : file' = Append(file, l)
    /\ CloseReturn
    /\ UNCHANGED <<config, out, exit_status>>

\* line_buf once fgets has filled it and eol was overwritten
BufOf(l) == LineBuf(fgets(l.text, l.nl)) \o <<NUL>>

\* the two checks every line passes first: "overflow", "empty" or "none"
LineCheck(l) ==
    IF EolOf(fgets(l.text, l.nl)) = 0 THEN "overflow"
    ELSE IF strtok(BufOf(l), 1).tok = 0 THEN "empty"
    ELSE "none"

\* the header from its first token on: t is what strtok(line_buf, " ") gave
Header(t) == HeaderScan(t.buf, t.tok, t.save, 0)

\* the end of the iteration on the header: h is what HeaderScan gave;
\* `cpu_count--; line_num++; continue;`
EndHeader(h) ==
    IF ~h.ok
    THEN ErrorReturn("cpu", irqstats)
    ELSE /\ cpu_count' = h.cpu_count - 1
         /\ line_num' = line_num + 1
         /\ UNCHANGED <<interrupts, pc, irq_num, irqstats, ret, err>>

\* one iteration of the loop with line_num == 0
ReadHeaderLine ==
    /\ pc = "loop"
    /\ ~AtMaxIrqs(irq_num)
    /\ line_num = 0
    /\ \E l \in NextInput(file) :
          /\ file' = Append(file, l)
          /\ IF LineCheck(l) # "none"
             THEN ErrorReturn(LineCheck(l), irqstats)
             ELSE EndHeader(Header(strtok(BufOf(l), 1)))
    /\ UNCHANGED <<config, out, exit_status>>

\* the slot once the description stage has run
WithDescription(slot, d) ==
    [end |-> d.outcome, written |-> TRUE,
     slot |-> [slot EXCEPT !.has_description = d.has_description,
                           !.description = d.description,
                           !.has_hwirq = d.has_hwirq,
                           !.hwirq = d.hwirq]]

\* a data line from the counter loop's end on: c is what the loop left
Counted(c, eol, name, cfg, alloc, ub) ==
    IF c.err # "none"
    THEN [end |-> c.err, written |-> TRUE,
          slot |-> [ZeroIrqstat EXCEPT !.name = name, !.has_name = TRUE, !.count = c.count]]
    ELSE IF ~cfg
    THEN [end |-> "next_line", written |-> TRUE,
          slot |-> [ZeroIrqstat EXCEPT !.name = name, !.has_name = TRUE, !.count = c.count]]
    ELSE WithDescription([ZeroIrqstat EXCEPT !.name = name, !.has_name = TRUE, !.count = c.count],
                         Describe(c.buf, c.pos, eol, name, alloc, ub))

\* a data line from its first token on: t is what strtok(line_buf, " ") gave
Named(t, eol, cpu_cnt, cfg, alloc, ub) ==
    IF ~strchr(CStr(t.buf, t.tok), ":")
    THEN [end |-> "colon", written |-> FALSE, slot |-> ZeroIrqstat]
    ELSE IF alloc = "name"
    THEN [end |-> "malloc", written |-> TRUE, slot |-> ZeroIrqstat]
    ELSE Counted(CounterLoop(t.buf, t.save, t.tok, 0, cpu_cnt, 0), eol,
                 NameOf(CStr(t.buf, t.tok)), cfg, alloc, ub)

\* the slot a data line leaves in irqstats[irq_num], and how its iteration
\* ends: an ERROR ("colon", "malloc", "nocounters", "garbage"), "crash" or
\* "next_line"; written says whether the slot was assigned at all
DataLine(l, cpu_cnt, cfg, alloc, ub) ==
    Named(strtok(BufOf(l), 1), EolOf(fgets(l.text, l.nl)), cpu_cnt, cfg, alloc, ub)

\* the mallocs that may fail
Allocs == {"ok", "name", "description"}

\* the end of an iteration on a data line: r is what DataLine gave
EndLine(r) ==
    /\ irqstats' = IF r.written THEN Append(irqstats, r.slot) ELSE irqstats
    /\ IF r.end = "next_line"
       THEN /\ line_num' = line_num + 1
            /\ irq_num' = irq_num + 1
            /\ UNCHANGED <<interrupts, pc, cpu_count, ret, err>>
       ELSE IF r.end = "crash"
       THEN /\ pc' = "crashed"
            /\ UNCHANGED <<interrupts, line_num, irq_num, cpu_count, ret, err>>
       ELSE /\ pc' = "returned"
            /\ ret' = 0
            /\ err' = r.end
            /\ UNCHANGED <<interrupts, line_num, irq_num, cpu_count>>

\* one iteration of the loop with line_num > 0
ReadDataLine ==
    /\ pc = "loop"
    /\ ~AtMaxIrqs(irq_num)
    /\ line_num > 0
    /\ \E l \in NextInput(file), alloc \in Allocs, ub \in UBOutcomes :
          /\ file' = Append(file, l)
          /\ IF LineCheck(l) # "none"
             THEN ErrorReturn(LineCheck(l), irqstats)
             ELSE EndLine(DataLine(l, cpu_count, config, alloc, ub))
    /\ UNCHANGED <<config, out, exit_status>>

(***************************************************************************)
(* config and fetch.  A printed line is [field, id, text, hwirq, value]:   *)
(* the field name, the "i<name>" it is about, its text, the " [hwirq]"     *)
(* suffix as a sequence of at most one number, and the count.              *)
(***************************************************************************)
S_NMI == <<"N", "M", "I">>
S_LOC == <<"L", "O", "C">>

\* printf("i%s", name)
Id(name) == <<"i">> \o name

Printed(field, id, text, hwirq, value) ==
    [field |-> field, id |-> id, text |-> text, hwirq |-> hwirq, value |-> value]

\* printf(" [%lu]", hwirq) if has_hwirq
HwirqSuffix(r) == IF r.has_hwirq THEN <<r.hwirq>> ELSE <<>>

\* the lines config prints for one record
ConfigRecord(r) ==
    <<Printed("label", Id(r.name),
              IF r.has_description THEN r.description ELSE r.name, HwirqSuffix(r), 0)>>
    \o (IF r.has_description
        THEN <<Printed("info", Id(r.name), r.description, HwirqSuffix(r), 0)>>
        ELSE IF r.name = S_NMI \/ r.name = S_LOC
             THEN <<Printed("info", Id(r.name), <<"c", "a", "n", "n", "e", "d">>, <<>>, 0)>>
             ELSE <<>>)
    \o <<Printed("type", Id(r.name), <<>>, <<>>, 0),
         Printed("min", Id(r.name), <<>>, <<>>, 0)>>

RECURSIVE ConfigRecords(_, _, _)
\* the lines of `for (size_t i = 0; i < irq_num; i++)`, for the slots from..to
ConfigRecords(slots, from, to) ==
    IF from > to THEN <<>>
    ELSE IF from = to THEN ConfigRecord(slots[from])
    ELSE ConfigRecords(slots, from, (from + to) \div 2)
            \o ConfigRecords(slots, (from + to) \div 2 + 1, to)

\* what config prints when read_interrupts returned n > 0
ConfigOutput(slots, n) ==
    <<Printed("graph", <<>>, <<>>, <<>>, 0),
      Printed("graph_order", <<>>, [i \in 1..n |-> Id(slots[i].name)], <<>>, 0)>>
    \o ConfigRecords(slots, 1, n)

\* what fetch prints when read_interrupts returned n > 0
FetchOutput(slots, n) ==
    [i \in 1..n |-> Printed("value", Id(slots[i].name), <<>>, <<>>, slots[i].count)]

\* `if (irq_num == 0) return false;`, then the printfs; main returns !config()
Config ==
    /\ pc = "returned"
    /\ config
    /\ pc' = "exit"
    /\ IF ret = 0
       THEN /\ exit_status' = 1
            /\ UNCHANGED out
       ELSE /\ exit_status' = 0
            /\ out' = ConfigOutput(irqstats, ret)
    /\ UNCHANGED <<config, file, interrupts, line_num, irq_num, cpu_count, irqstats, ret, err>>

\* the same for fetch
Fetch ==
    /\ pc = "returned"
    /\ ~config
    /\ pc' = "exit"
    /\ IF ret = 0
       THEN /\ exit_status' = 1
            /\ UNCHANGED out
       ELSE /\ exit_status' = 0
            /\ out' = FetchOutput(irqstats, ret)
    /\ UNCHANGED <<config, file, interrupts, line_num, irq_num, cpu_count, irqstats, ret, err>>

Next ==
    \/ Fopen
    \/ ReadHeaderLine
    \/ ReadDataLine
    \/ DiscardRemainder
    \/ EndOfFile
    \/ Config
    \/ Fetch

Spec == Init /\ [][Next]_vars

(***************************************************************************)
(* Vocabulary of the properties: the lines of the file as text, read       *)
(* without strtok.                                                         *)
(***************************************************************************)
\* the n-th smallest element of a set of numbers
Nth(S, n) == CHOOSE x \in S : Cardinality({y \in S : y < x}) = n - 1

WordStarts(s) == {i \in 1..Len(s) : s[i] # SP /\ (i = 1 \/ s[i - 1] = SP)}

WordEnds(s) == {i \in 1..Len(s) : s[i] # SP /\ (i = Len(s) \/ s[i + 1] = SP)}

\* the maximal runs of characters other than the space, in order
Words(s) ==
    [n \in 1..Cardinality(WordStarts(s)) |->
        SubSeq(s, Nth(WordStarts(s), n), Nth(WordEnds(s), n))]

\* the text after the n-th word
AfterWord(s, n) == SubSeq(s, Nth(WordEnds(s), n) + 1, Len(s))

AllDigits(w) == w # <<>> /\ \A i \in 1..Len(w) : w[i] \in {DigitSeq[d] : d \in 1..10}

\* the number that the digits at the start of w write
RECURSIVE LeadingNumber(_, _, _)
LeadingNumber(w, i, acc) ==
    IF i > Len(w) \/ w[i] \notin {DigitSeq[d] : d \in 1..10}
    THEN acc
    ELSE LeadingNumber(w, i + 1,
                       10 * acc + (CHOOSE v \in 0..9 : DigitSeq[v + 1] = w[i]))

Number(w) == LeadingNumber(w, 1, 0)

\* s without the whitespace at its two ends
Trim(s) ==
    LET inked == {i \in 1..Len(s) : s[i] \notin {" ", "\t", "\n", "\f", "\r"}}
    IN  IF inked = {} THEN <<>>
        ELSE SubSeq(s, Nth(inked, 1), Nth(inked, Cardinality(inked)))

RECURSIVE JoinFrom(_, _)
\* the words of ws from the i-th on, with one space between two of them
JoinFrom(ws, i) ==
    IF i > Len(ws) THEN <<>>
    ELSE IF i = Len(ws) THEN ws[i]
    ELSE ws[i] \o <<SP>> \o JoinFrom(ws, i + 1)

\* the text of the file's header and of the line that record i comes from
HeaderText == file[1].text

LineOf(i) == file[i + 1].text

\* N: the "CPU" columns of the header
Columns == Len(Words(HeaderText))

\* how many of the words after the name are counters that get summed: the
\* longest run of numbers from the first one on, N at most
RECURSIVE Run(_, _, _)
Run(ws, k, n) ==
    IF k < n /\ k + 2 <= Len(ws) /\ AllDigits(ws[k + 2]) THEN Run(ws, k + 1, n) ELSE k

Summed(ws) == Run(ws, 0, Columns)

RECURSIVE SumOf(_, _)
\* the sum of the first k counters
SumOf(ws, k) == IF k = 0 THEN 0 ELSE SumOf(ws, k - 1) + Number(ws[k + 1])

\* the line of slot i ended read_interrupts with an ERROR about its counters
CounterError(i) ==
    /\ pc \in {"returned", "exit"}
    /\ err \in {"nocounters", "garbage"}
    /\ i = Len(irqstats)
    /\ irq_num = i - 1

(***************************************************************************)
(* C1: with N "CPU" columns in the header, the count of every data line    *)
(* whose name was stored is the sum of the longest run of numbers that     *)
(* starts right after the name, N of them at most; a line with k such      *)
(* numbers, 1 <= k < N, gets no ERROR and the sum of the k ("5 3" with     *)
(* N = 3: 8).                                                              *)
(***************************************************************************)
C1_CountIsSumOfNumericRun ==
    \A i \in 1..Len(irqstats) :
        LET ws == Words(LineOf(i))
            k == Summed(ws)
        IN  (irqstats[i].has_name /\ k >= 1)
                => /\ irqstats[i].count = SumOf(ws, k)
                   /\ ~CounterError(i)

\* "E: 5 3" under "CPU0 CPU1 CPU2" was reported with the count 8
C1_Witness ==
    /\ pc = "exit"
    /\ exit_status = 0
    /\ ~config
    /\ HeaderText = <<"C", "P", "U", "0", " ", "C", "P", "U", "1", " ", "C", "P", "U", "2">>
    /\ LineOf(1) = <<"E", ":", " ", "5", " ", "3">>
    /\ irqstats[1].count = 8

(***************************************************************************)
(* Vocabulary: what ends the parse.                                        *)
(***************************************************************************)
\* read_interrupts has returned
Returned == pc \in {"returned", "exit"}

\* the line has a first word and no number after it
NoFirstCounter(text) ==
    LET ws == Words(text)
    IN  Len(ws) >= 1 /\ (Len(ws) = 1 \/ ~AllDigits(ws[2]))

\* the line's newline is not among the MAX_LINE - 1 characters line_buf holds
Overflows(l) == ~l.nl \/ Len(l.text) + 1 > MAX_LINE - 1

\* the j-th line of the file is the last one read and the parse failed on it
FailedAt(j) ==
    /\ Returned
    /\ ret = 0
    /\ err # "none"
    /\ j = Len(file)

(***************************************************************************)
(* C2, as claimed: whenever a data line has no first counter, or one that  *)
(* is no number, or does not fit the line buffer, read_interrupts fails on *)
(* it with 0 records, however many valid lines came before; no later line  *)
(* is read and nothing is printed.                                         *)
(***************************************************************************)
C2_Original ==
    \A j \in 2..Len(file) :
        (NoFirstCounter(file[j].text) \/ Overflows(file[j]))
            => FailedAt(j) /\ out = <<>>

(***************************************************************************)
(* C2, amended: the same for every data line that is read before MAX_IRQS  *)
(* records are stored (the lines 2 .. MAX_IRQS + 1 of the file); the line  *)
(* read once MAX_IRQS records are stored is discarded without a look.      *)
(***************************************************************************)
C2_BadLineFailsParse ==
    \A j \in 2..Len(file) :
        (j <= MAX_IRQS + 1 /\ (NoFirstCounter(file[j].text) \/ Overflows(file[j])))
            => FailedAt(j) /\ out = <<>>

\* three valid lines, then a line whose first counter is no number: 0
\* records, nothing printed
C2_Witness ==
    /\ pc = "exit"
    /\ Len(file) = 5
    /\ file[5].text = <<"E", ":", " ", "x">>
    /\ err = "garbage"
    /\ ret = 0
    /\ exit_status = 1
    /\ out = <<>>
    /\ Len(irqstats) = 4

(***************************************************************************)
(* C3, as claimed: the first word of a data line must be at least two      *)
(* characters long with exactly one colon, its last character; otherwise   *)
(* the parse fails on the line; the name is that word without the colon.   *)
(***************************************************************************)
WellFormedName(w) ==
    /\ Len(w) >= 2
    /\ w[Len(w)] = ":"
    /\ \A i \in 1..(Len(w) - 1) : w[i] # ":"

C3_Original ==
    \A j \in 2..Len(file) :
        (j <= MAX_IRQS + 1 /\ ~Overflows(file[j]) /\ Words(file[j].text) # <<>>)
            => LET w == Words(file[j].text)[1]
               IN  IF WellFormedName(w)
                   THEN (Len(irqstats) >= j - 1 /\ irqstats[j - 1].has_name)
                            => irqstats[j - 1].name = SubSeq(w, 1, Len(w) - 1)
                   ELSE FailedAt(j)

(***************************************************************************)
(* C4, as claimed: once read_interrupts has returned, on whatever path,    *)
(* the stream it opened is closed.                                         *)
(***************************************************************************)
C4_Original == Returned => interrupts # "open"

(***************************************************************************)
(* C5, as claimed: a line whose first word is "FIQ:" leaves no record and  *)
(* never fails the parse for its lack of counters.                         *)
(***************************************************************************)
S_FIQ == <<"F", "I", "Q">>

C5_Original ==
    /\ \A i \in 1..Len(irqstats) : irqstats[i].name # S_FIQ
    /\ \A j \in 2..Len(file) :
          (Words(file[j].text) # <<>> /\ Words(file[j].text)[1] = S_FIQ \o <<":">>)
              => ~(FailedAt(j) /\ err \in {"nocounters", "garbage"})

(***************************************************************************)
(* C6: never more than MAX_IRQS records, no slot beyond irqstats[255]; a   *)
(* file with more than MAX_IRQS data lines has its 257th data line read    *)
(* and discarded unexamined, read_interrupts returns MAX_IRQS without an   *)
(* ERROR, and the records are those of the first MAX_IRQS data lines, in   *)
(* their order.                                                            *)
(***************************************************************************)
\* the name a well-formed data line gives its record
NameFromLine(text) == SubSeq(Words(text)[1], 1, Len(Words(text)[1]) - 1)

C6_AtMostMaxIrqsRecords ==
    /\ Len(irqstats) <= MAX_IRQS
    /\ irq_num <= MAX_IRQS
    /\ Returned => ret <= MAX_IRQS
    /\ Len(file) - 1 > MAX_IRQS
          => /\ Returned
             /\ ret = MAX_IRQS
             /\ err = "none"
             /\ Len(file) - 1 = MAX_IRQS + 1
             /\ Len(irqstats) = MAX_IRQS
             /\ \A i \in 1..MAX_IRQS :
                   /\ irqstats[i].name = NameFromLine(LineOf(i))
                   /\ irqstats[i].count = Number(Words(LineOf(i))[2])
             /\ pc = "exit"
                   => /\ exit_status = 0
                      /\ ~config => /\ Len(out) = MAX_IRQS
                                    /\ \A i \in 1..MAX_IRQS :
                                          out[i].id = <<"i">> \o NameFromLine(LineOf(i))

\* MAX_IRQS valid lines, then a line without a colon: MAX_IRQS values printed
C6_Witness ==
    /\ pc = "exit"
    /\ ~config
    /\ Len(file) = MAX_IRQS + 2
    /\ file[MAX_IRQS + 2].text = <<"x">>
    /\ ret = MAX_IRQS
    /\ exit_status = 0
    /\ Len(out) = MAX_IRQS

(***************************************************************************)
(* Vocabulary: the description.                                            *)
(***************************************************************************)
\* the lines of the file that config's read_interrupts has accepted
Accepted == IF config THEN 1..irq_num ELSE {}

\* the text after the last counter that was summed
AfterCounters(i) == AfterWord(LineOf(i), Summed(Words(LineOf(i))) + 1)

\* the text the description stage works on: what follows the word at which
\* the counter loop stopped, the last of N counters or the first word that
\* is no number
StageText(i) ==
    LET ws == Words(LineOf(i))
        k == Summed(ws)
    IN  IF k = Columns THEN AfterWord(LineOf(i), k + 1)
        ELSE IF Len(ws) >= k + 2 THEN AfterWord(LineOf(i), k + 2)
        ELSE <<>>

\* tokens[0], tokens[1], ...: its words, MAX_TOKENS of them at most; T[n + 1]
\* is token n
StageTokens(i) ==
    LET ws == Words(Trim(StageText(i)))
    IN  IF Len(ws) <= MAX_TOKENS THEN ws ELSE SubSeq(ws, 1, MAX_TOKENS)

IsType(w) == w \in {<<"E", "d", "g", "e">>, <<"L", "e", "v", "e", "l">>, <<"N", "o", "n", "e">>}

HasSuffix(w, suffix) ==
    /\ Len(w) >= Len(suffix)
    /\ \A i \in 1..Len(suffix) : w[Len(w) - Len(suffix) + i] = suffix[i]

\* record i has the description that starts at token `start`, and the
\* hwirq of token 1 if and only if `recorded`
DescribedFrom(i, T, start, recorded) ==
    /\ irqstats[i].has_description
    /\ irqstats[i].description = JoinFrom(T, start + 1)
    /\ irqstats[i].has_hwirq = recorded
    /\ recorded => irqstats[i].hwirq = Number(T[2])

(***************************************************************************)
(* C7, as claimed: in config mode an accepted line with a name that is no  *)
(* number and with text other than whitespace after its summed counters    *)
(* (fewer counters than CPU columns included) has that text, trimmed of    *)
(* the whitespace at its ends, as its description.                         *)
(***************************************************************************)
C7_Original ==
    \A i \in Accepted :
        (~AllDigits(irqstats[i].name) /\ Summed(Words(LineOf(i))) >= 1
            /\ Trim(AfterCounters(i)) # <<>>)
            => /\ irqstats[i].has_description
               /\ irqstats[i].description = Trim(AfterCounters(i))

IsApic(w) ==
    /\ w[1] \in {DigitSeq[d] : d \in 1..10}
    /\ HasSuffix(w, <<"-", "f", "a", "s", "t", "e", "o", "i">>)
          \/ HasSuffix(w, <<"-", "e", "d", "g", "e">>)

StartsWithCPU(w) == Len(w) >= 3 /\ w[1] = "C" /\ w[2] = "P" /\ w[3] = "U"

\* the words of s when any whitespace separates them
WhitespaceWords(s) ==
    Words([i \in 1..Len(s) |-> IF s[i] \in {"\t", "\n", "\f", "\r"} THEN SP ELSE s[i]])

\* what the claim says of a header with the tokens ws, once it was read
\* with its newline: the parse fails on it with no record if there is no
\* token or one that does not start with "CPU"; else the number of tokens is
\* the column count from then on, and the header leaves no record
HeaderRule(ws) ==
    IF ws = <<>> \/ \E n \in 1..Len(ws) : ~StartsWithCPU(ws[n])
    THEN FailedAt(1) /\ irqstats = <<>> /\ irq_num = 0
    ELSE /\ line_num >= 1
         /\ cpu_count + 1 = Len(ws)
         /\ irq_num <= Len(file) - 1
         /\ Len(irqstats) <= Len(file) - 1

(***************************************************************************)
(* C10, as claimed: the header fails the parse with no record if it is     *)
(* empty or one of its whitespace-separated tokens does not start with     *)
(* "CPU"; else the number of its tokens is the counter-column count for    *)
(* the rest of the parse, and the header leaves no record.                 *)
(***************************************************************************)
C10_Original ==
    (Len(file) >= 1 /\ ~Overflows(file[1])) => HeaderRule(WhitespaceWords(HeaderText))

(***************************************************************************)
(* C10, amended: the same with the tokens that the space character (and    *)
(* no other whitespace) separates.                                         *)
(***************************************************************************)
C10_HeaderRule ==
    (Len(file) >= 1 /\ ~Overflows(file[1])) => HeaderRule(Words(HeaderText))

\* "  CPU0  CPU1 " gave two columns: "E: 5 3 2" has the count 8
C10_Witness ==
    /\ pc = "exit"
    /\ exit_status = 0
    /\ HeaderText = <<" ", " ", "C", "P", "U", "0", " ", " ", "C", "P", "U", "1", " ">>
    /\ cpu_count = 1
    /\ LineOf(1) = <<"E", ":", " ", "5", " ", "3", " ", "2">>
    /\ irqstats[1].count = 8
    /\ Len(irqstats) = 1

(***************************************************************************)
(* C11: config and fetch print nothing to stdout and return failure (main  *)
(* exits with 1) whenever read_interrupts failed or returned 0 records,    *)
(* as on a file that is its header only; whatever is printed is printed    *)
(* after a parse that ended without an ERROR with one record or more.      *)
(***************************************************************************)
C11_NoOutputWithoutRecords ==
    /\ pc # "exit" => out = <<>>
    /\ (pc = "exit" /\ (ret = 0 \/ err # "none")) => (out = <<>> /\ exit_status = 1)
    /\ out # <<>> => (pc = "exit" /\ exit_status = 0 /\ err = "none" /\ ret >= 1
                         /\ interrupts = "closed")

\* the file is the header "CPU0" and nothing else: 0 records, nothing
\* printed, failure
C11_Witness ==
    /\ pc = "exit"
    /\ Len(file) = 1
    /\ file[1].text = <<"C", "P", "U", "0">>
    /\ err = "none"
    /\ ret = 0
    /\ out = <<>>
    /\ exit_status = 1

(***************************************************************************)
(* C12, as claimed: in config mode the description of a numbered line is   *)
(* built without undefined behaviour whatever the number of its trailing   *)
(* tokens: no strcpy from a NULL pos on the one-token path, no write to    *)
(* description[-1] when no token was appended.  The two are the only       *)
(* operations that can end the process, so the claim is that it never      *)
(* ends that way.                                                          *)
(***************************************************************************)
C12_Original == pc # "crashed"

(***************************************************************************)
(* Vocabulary: the two modes on the same line.                             *)
(***************************************************************************)
\* the last line read is a data line that read_interrupts has examined, and
\* no malloc failed on it
Examined ==
    /\ Len(file) >= 2
    /\ Len(file) <= MAX_IRQS + 1
    /\ LineCheck(file[Len(file)]) = "none"
    /\ err # "malloc"

\* this run has accepted the last line read: its record is stored and counted
AcceptedHere ==
    /\ irq_num = Len(file) - 1
    /\ Len(irqstats) = Len(file) - 1

\* what read_interrupts does with the last line read when called with the
\* other value of config, no malloc failing
OtherMode(ub) == DataLine(file[Len(file)], cpu_count, ~config, "ok", ub)

(***************************************************************************)
(* C13, as claimed: read_interrupts with config = true and with config =   *)
(* false accept or reject every line alike (malloc failure aside) and,     *)
(* accepting it, store the same name and the same count for it; the        *)
(* records being stored in the order of the lines, the two runs so return  *)
(* the same number of records with the same names and counts.              *)
(***************************************************************************)
C13_Original ==
    \A ub \in UBOutcomes :
        Examined
            => /\ AcceptedHere <=> OtherMode(ub).end = "next_line"
               /\ AcceptedHere
                     => /\ OtherMode(ub).slot.name = irqstats[Len(file) - 1].name
                        /\ OtherMode(ub).slot.count = irqstats[Len(file) - 1].count

====
